---- MODULE Spec2Model ----
(***************************************************************************)
(* Storage-quota accounting, document bookkeeping, visibility and access   *)
(* control of the walletDoc backend: POST /api/documents/upload,           *)
(* DELETE /api/documents/:documentId, PUT .../toggle-visibility,           *)
(* POST /api/documents/get-documents-by-pin, the authenticateToken         *)
(* middleware, POST /api/auth/update-profile-picture, PUT                  *)
(* /api/auth/update-profile and POST /api/auth/logout, over the Firestore  *)
(* collections `users` and `documents`, the storage bucket and the user    *)
(* records of the identity provider.                                       *)
(*                                                                         *)
(* Every handler is a chain of awaited external calls; each awaited call   *)
(* is one action, so that a failure of any call and (in the specifications *)
(* with two request slots) any interleaving of two requests is a           *)
(* behaviour of the model.                                                 *)
(***************************************************************************)
EXTENDS Integers, Sequences, FiniteSets, TLC

VARIABLES
    users,      \* Firestore collection 'users': uid -> user record
    documents,  \* Firestore collection 'documents': docId -> DocumentRecord
    bucket,     \* storage bucket: object path -> size in bytes
    nextDoc,    \* number of the next document upload (names its object and its record)
    nextPic,    \* number of the next profile-picture object
    authUsers,  \* Firebase Auth user records: uid -> tokensValidAfterTime
    req         \* in-flight requests: slot -> handler position and locals

vars == <<users, documents, bucket, nextDoc, nextPic, authUsers, req>>

----------------------------------------------------------------------------
(* Program constants *)

\* Maximum storage quota per user (50MB)
MAX_STORAGE_SIZE == 50 * 1024 * 1024

\* multer limit of the document upload
UPLOAD_FILE_LIMIT == 10 * 1024 * 1024

\* multer limit of the profile-picture upload
PROFILE_PICTURE_LIMIT == 5 * 1024 * 1024

----------------------------------------------------------------------------
(* Bounds and input sets *)

\* document uploads started in Spec (serialized, two callers)
MaxDocs == 3

\* profile pictures stored in Spec
MaxPics == 2

\* document uploads started in SpecQuota (serialized, one caller, up to the quota)
MaxDocsQ == 6

\* profile pictures stored in SpecQuota
MaxPicsQ == 2

\* document uploads started in SpecFail (serialized, external calls may throw)
MaxDocsF == 1

\* profile pictures stored in SpecFail
MaxPicsF == 2

\* documents a user has at the start of SpecList
SeededDocs == 2

\* document uploads started in SpecList, the seeded documents included
MaxDocsL == 3

\* document uploads started in SpecMix
MaxDocsM == 2

\* document uploads started in SpecTwice
MaxDocsT == 2

\* document uploads started in SpecFrame
MaxDocsW == 1

\* document uploads started in SpecRead
MaxDocsD == 2

\* document uploads started in SpecRace after the first, by two concurrent requests
MaxDocsR == 2

\* latest second at which a token is issued or the tokens of a user are revoked
MaxTime == 3

Users == {"u1", "u2"}

\* file.size of an uploaded document (each within UPLOAD_FILE_LIMIT)
FileSizes == {4 * 1024 * 1024, 9800000}

\* file.size of an uploaded profile picture (each within PROFILE_PICTURE_LIMIT)
PicSizes == {1024 * 1024, 5 * 1024 * 1024}

Slots == {"r1", "r2"}

\* outcome of an awaited external call: it resolves or it throws
Resolves == {"ok"}
ResolvesOrThrows == {"ok", "throw"}

----------------------------------------------------------------------------
(* Values *)

NoPath == <<"none", 0>>

DocPath(n) == <<"doc", n>>

PicPath(n) == <<"pic", n>>

\* no signed URL (downloadURL undefined)
NoUrl == [storagePath |-> NoPath, issuedBy |-> "none"]

\* the URL file.getSignedUrl() returns for the object at path: a new URL at every
\* call (it embeds the expiry Date.now() + 1 year), named here by the operation
\* that asked for it
SignedUrl(path, op) == [storagePath |-> path, issuedBy |-> op]

NoDocData == [userId |-> "", storagePath |-> NoPath, fileSize |-> 0, downloadURL |-> NoUrl]

NoUserData ==
    [totalSize |-> 0, documents |-> <<>>, profilePicturePath |-> NoPath, masterPin |-> ""]

\* userRecord.tokensValidAfterTime of a user whose tokens were never revoked
NoTime == -1

NoResp == [status |-> 0, currentSize |-> 0, fileSize |-> 0, availableSpace |-> 0]

Put(f, k, v) == [x \in DOMAIN f \cup {k} |-> IF x = k THEN v ELSE f[x]]

Remove(f, k) == [x \in DOMAIN f \ {k} |-> f[x]]

Max(a, b) == IF a >= b THEN a ELSE b

Snapshot == [users |-> users, documents |-> documents, bucket |-> bucket]

\* req.headers.authorization undefined
NoHeader == [scheme |-> "", token |-> <<>>]

Idle ==
    [pc |-> "idle", op |-> "none", uid |-> "", size |-> 0, documentId |-> 0,
     fileName |-> NoPath, docData |-> NoDocData, userData |-> NoUserData,
     oldProfilePictureSize |-> 0, newTotalSize |-> 0,
     isDocShow |-> FALSE, documentIndex |-> 0, pin |-> "", data |-> <<>>,
     urls |-> <<>>, bodyKind |-> "",
     authorization |-> NoHeader,
     resp |-> NoResp, pre |-> <<>>, deleted |-> {}]

\* res.status(code).json(...) and return: the handler is over
Respond(r, code) ==
    [req EXCEPT ![r].pc = "done", ![r].resp = [NoResp EXCEPT !.status = code]]

----------------------------------------------------------------------------
(* Registration: documents: [], totalSize: 0, masterPin: '' *)

RegisteredUser ==
    [totalSize |-> 0, documents |-> <<>>, profilePicturePath |-> NoPath, masterPin |-> ""]

\* the Auth user record of a user whose tokens were never revoked
RegisteredAuthUser == [tokensValidAfterTime |-> NoTime]

Init ==
    /\ users = [u \in Users |-> RegisteredUser]
    /\ documents = <<>>
    /\ bucket = <<>>
    /\ nextDoc = 1
    /\ nextPic = 1
    /\ authUsers = [u \in Users |-> RegisteredAuthUser]
    /\ req = [r \in Slots |-> Idle]

----------------------------------------------------------------------------
(* POST /upload *)

\* a descriptor that starts hidden
DocDetails_Hidden(docId, fileSize) ==
    [shape |-> "current", docId |-> docId, docSize |-> fileSize, isDocShow |-> FALSE]

\* docDetails, the descriptor pushed to the user's documents array
DocDetails(docId, fileSize) ==
    [shape |-> "current", docId |-> docId, docSize |-> fileSize, isDocShow |-> TRUE]

\* FieldValue.arrayUnion: append unless an equal element is present
ArrayUnion(list, elem) ==
    IF \E i \in 1..Len(list) : list[i] = elem THEN list ELSE Append(list, elem)

\* the new total without the current one
UploadNewTotalSize_Overwrite(currentTotalSize, fileSize) == fileSize

UploadNewTotalSize(currentTotalSize, fileSize) == currentTotalSize + fileSize

\* multer passes a file of at most limits.fileSize bytes on to the handler
StartUpload(r, u, s) ==
    /\ req[r].pc = "idle"
    /\ s <= UPLOAD_FILE_LIMIT
    /\ req' = [req EXCEPT ![r] = [Idle EXCEPT !.pc = "upl_save", !.op = "upload",
                                              !.uid = u, !.size = s, !.pre = Snapshot]]
    /\ UNCHANGED <<users, documents, bucket, nextDoc, nextPic, authUsers>>

\* await fileUpload.save(file.buffer, ...)
UploadSave(r, o) ==
    /\ req[r].pc = "upl_save"
    /\ IF o = "ok"
       THEN /\ bucket' = Put(bucket, DocPath(nextDoc), req[r].size)
            /\ nextDoc' = nextDoc + 1
            /\ req' = [req EXCEPT ![r].pc = "upl_sign", ![r].fileName = DocPath(nextDoc),
                                  ![r].documentId = nextDoc]
       ELSE /\ req' = Respond(r, 500)
            /\ UNCHANGED <<bucket, nextDoc>>
    /\ UNCHANGED <<users, documents, nextPic, authUsers>>

\* await fileUpload.getSignedUrl(...)
UploadSign(r, o) ==
    /\ req[r].pc = "upl_sign"
    /\ req' = IF o = "ok" THEN [req EXCEPT ![r].pc = "upl_add"] ELSE Respond(r, 500)
    /\ UNCHANGED <<users, documents, bucket, nextDoc, nextPic, authUsers>>

\* await db.collection('documents').add(documentData)
UploadAdd(r, o) ==
    /\ req[r].pc = "upl_add"
    /\ IF o = "ok"
       THEN /\ documents' = Put(documents, req[r].documentId,
                                [userId |-> req[r].uid, storagePath |-> req[r].fileName,
                                 fileSize |-> req[r].size,
                                 downloadURL |-> SignedUrl(req[r].fileName, "upload")])
            /\ req' = [req EXCEPT ![r].pc = "upl_get"]
       ELSE /\ req' = Respond(r, 500)
            /\ UNCHANGED documents
    /\ UNCHANGED <<users, bucket, nextDoc, nextPic, authUsers>>

\* await userRef.get()
UploadGetUser(r, o) ==
    /\ req[r].pc = "upl_get"
    /\ req' = IF o = "ok"
              THEN [req EXCEPT ![r].pc = "upl_update", ![r].userData = users[req[r].uid],
                               ![r].newTotalSize =
                                   UploadNewTotalSize(users[req[r].uid].totalSize, req[r].size)]
              ELSE Respond(r, 500)
    /\ UNCHANGED <<users, documents, bucket, nextDoc, nextPic, authUsers>>

\* the total written as an atomic increment by the file's size
UploadUpdateUser_Increment(r, o) ==
    /\ req[r].pc = "upl_update"
    /\ IF o = "ok"
       THEN /\ users' = [users EXCEPT
                  ![req[r].uid].documents =
                      ArrayUnion(@, DocDetails(req[r].documentId, req[r].size)),
                  ![req[r].uid].totalSize = @ + req[r].size]
            /\ req' = [req EXCEPT ![r].pc = "upl_touch"]
       ELSE /\ req' = Respond(r, 500)
            /\ UNCHANGED users
    /\ UNCHANGED <<documents, bucket, nextDoc, nextPic, authUsers>>

\* the array written whole: the array read by userRef.get() plus the descriptor
UploadUpdateUser_WholeList(r, o) ==
    /\ req[r].pc = "upl_update"
    /\ IF o = "ok"
       THEN /\ users' = [users EXCEPT
                  ![req[r].uid].documents =
                      Append(req[r].userData.documents,
                             DocDetails(req[r].documentId, req[r].size)),
                  ![req[r].uid].totalSize = req[r].newTotalSize]
            /\ req' = [req EXCEPT ![r].pc = "upl_touch"]
       ELSE /\ req' = Respond(r, 500)
            /\ UNCHANGED users
    /\ UNCHANGED <<documents, bucket, nextDoc, nextPic, authUsers>>

\* await userRef.update({documents: arrayUnion(docDetails), totalSize: newTotalSize})
UploadUpdateUser(r, o) ==
    /\ req[r].pc = "upl_update"
    /\ IF o = "ok"
       THEN /\ users' = [users EXCEPT
                  ![req[r].uid].documents =
                      ArrayUnion(@, DocDetails(req[r].documentId, req[r].size)),
                  ![req[r].uid].totalSize = req[r].newTotalSize]
            /\ req' = [req EXCEPT ![r].pc = "upl_touch"]
       ELSE /\ req' = Respond(r, 500)
            /\ UNCHANGED users
    /\ UNCHANGED <<documents, bucket, nextDoc, nextPic, authUsers>>

\* await userRef.update({updatedAt: serverTimestamp()}), then 201
UploadTouch(r, o) ==
    /\ req[r].pc = "upl_touch"
    /\ req' = IF o = "ok" THEN Respond(r, 201) ELSE Respond(r, 500)
    /\ UNCHANGED <<users, documents, bucket, nextDoc, nextPic, authUsers>>

----------------------------------------------------------------------------
(* DELETE /:documentId *)

\* no ownership check
IsOwner_Any(docData, userId) == TRUE

\* docData?.userId !== userId is the 403 branch
IsOwner(docData, userId) == docData.userId = userId

\* the size as a fresh stat of the object store
DeleteDocSize_Stat(docData) ==
    IF docData.storagePath \in DOMAIN bucket THEN bucket[docData.storagePath] ELSE 0

\* const docSize = docData.fileSize || 0
DeleteDocSize(docData) == docData.fileSize

\* a filter that knows the object format only and keeps every bare id
UpdatedDocuments_ObjectsOnly(list, documentId) ==
    SelectSeq(list, LAMBDA doc : doc.shape = "legacy" \/ doc.docId # documentId)

\* documents.filter(...): keep the entries, bare id or descriptor, of another id
UpdatedDocuments(list, documentId) ==
    SelectSeq(list, LAMBDA doc : IF doc.shape = "legacy"
                                 THEN doc.docId # documentId
                                 ELSE doc.docId # documentId)

\* Math.max(0, currentTotalSize - docSize)
DeleteNewTotalSize(currentTotalSize, docSize) == Max(0, currentTotalSize - docSize)

StartDelete(r, u, d) ==
    /\ req[r].pc = "idle"
    /\ req' = [req EXCEPT ![r] = [Idle EXCEPT !.pc = "del_load", !.op = "delete",
                                              !.uid = u, !.documentId = d, !.pre = Snapshot]]
    /\ UNCHANGED <<users, documents, bucket, nextDoc, nextPic, authUsers>>

\* await db.collection('documents').doc(documentId).get(), then the 404 and 403 checks
DeleteLoad(r, o) ==
    /\ req[r].pc = "del_load"
    /\ req' = IF o # "ok" THEN Respond(r, 500)
              ELSE IF req[r].documentId \notin DOMAIN documents THEN Respond(r, 404)
              ELSE IF ~IsOwner(documents[req[r].documentId], req[r].uid) THEN Respond(r, 403)
              ELSE [req EXCEPT ![r].pc = "del_file",
                               ![r].docData = documents[req[r].documentId]]
    /\ UNCHANGED <<users, documents, bucket, nextDoc, nextPic, authUsers>>

\* await file.delete() outside a try: a throw ends the request with 500
DeleteFile_Abort(r, o) ==
    /\ req[r].pc = "del_file"
    /\ IF o = "ok" /\ req[r].docData.storagePath \in DOMAIN bucket
       THEN /\ bucket' = Remove(bucket, req[r].docData.storagePath)
            /\ req' = [req EXCEPT ![r].pc = "del_doc",
                                  ![r].deleted = @ \cup {req[r].docData.storagePath}]
       ELSE /\ req' = Respond(r, 500)
            /\ UNCHANGED bucket
    /\ UNCHANGED <<users, documents, nextDoc, nextPic, authUsers>>

\* try { await file.delete() } catch { continue }: a missing object or a failing
\* call throws, and the throw is swallowed
DeleteFile(r, o) ==
    /\ req[r].pc = "del_file"
    /\ IF o = "ok" /\ req[r].docData.storagePath \in DOMAIN bucket
       THEN /\ bucket' = Remove(bucket, req[r].docData.storagePath)
            /\ req' = [req EXCEPT ![r].pc = "del_doc",
                                  ![r].deleted = @ \cup {req[r].docData.storagePath}]
       ELSE /\ req' = [req EXCEPT ![r].pc = "del_doc"]
            /\ UNCHANGED bucket
    /\ UNCHANGED <<users, documents, nextDoc, nextPic, authUsers>>

\* await db.collection('documents').doc(documentId).delete()
DeleteDoc(r, o) ==
    /\ req[r].pc = "del_doc"
    /\ IF o = "ok"
       THEN /\ documents' = Remove(documents, req[r].documentId)
            /\ req' = [req EXCEPT ![r].pc = "del_get"]
       ELSE /\ req' = Respond(r, 500)
            /\ UNCHANGED documents
    /\ UNCHANGED <<users, bucket, nextDoc, nextPic, authUsers>>

\* await userRef.get()
DeleteGetUser(r, o) ==
    /\ req[r].pc = "del_get"
    /\ req' = IF o = "ok"
              THEN [req EXCEPT ![r].pc = "del_update", ![r].userData = users[req[r].uid],
                               ![r].newTotalSize =
                                   DeleteNewTotalSize(users[req[r].uid].totalSize,
                                                      DeleteDocSize(req[r].docData))]
              ELSE Respond(r, 500)
    /\ UNCHANGED <<users, documents, bucket, nextDoc, nextPic, authUsers>>

\* await userRef.update({documents: updatedDocuments, totalSize: newTotalSize}), then 200
DeleteUpdateUser(r, o) ==
    /\ req[r].pc = "del_update"
    /\ IF o = "ok"
       THEN /\ users' = [users EXCEPT
                  ![req[r].uid].documents =
                      UpdatedDocuments(req[r].userData.documents, req[r].documentId),
                  ![req[r].uid].totalSize = req[r].newTotalSize]
            /\ req' = Respond(r, 200)
       ELSE /\ req' = Respond(r, 500)
            /\ UNCHANGED users
    /\ UNCHANGED <<documents, bucket, nextDoc, nextPic, authUsers>>

----------------------------------------------------------------------------
(* POST /update-profile-picture *)

\* the old picture's size is not subtracted
PicNewTotalSize_KeepsOld(currentTotalSize, oldProfilePictureSize, fileSize) ==
    currentTotalSize + fileSize

\* currentTotalSize - oldProfilePictureSize + file.size
PicNewTotalSize(currentTotalSize, oldProfilePictureSize, fileSize) ==
    currentTotalSize - oldProfilePictureSize + fileSize

\* the total held in 26 bits before it is compared
QuotaExceeded_Wraps(newTotalSize) == (newTotalSize % (2 ^ 26)) > MAX_STORAGE_SIZE

\* if (newTotalSize > MAX_STORAGE_SIZE)
QuotaExceeded(newTotalSize) == newTotalSize > MAX_STORAGE_SIZE

\* the space left after the attempted file, not before it
QuotaResponse_AfterFile(currentTotalSize, fileSize) ==
    [status |-> 413, currentSize |-> currentTotalSize, fileSize |-> fileSize,
     availableSpace |-> MAX_STORAGE_SIZE - currentTotalSize - fileSize]

\* the 413 payload
QuotaResponse(currentTotalSize, fileSize) ==
    [status |-> 413, currentSize |-> currentTotalSize, fileSize |-> fileSize,
     availableSpace |-> MAX_STORAGE_SIZE - currentTotalSize]

\* multer passes an image of at most limits.fileSize bytes on to the handler
StartPic(r, u, s) ==
    /\ req[r].pc = "idle"
    /\ s <= PROFILE_PICTURE_LIMIT
    /\ req' = [req EXCEPT ![r] = [Idle EXCEPT !.pc = "pic_get", !.op = "picture",
                                              !.uid = u, !.size = s, !.pre = Snapshot]]
    /\ UNCHANGED <<users, documents, bucket, nextDoc, nextPic, authUsers>>

\* await userRef.get()
PicGetUser(r, o) ==
    /\ req[r].pc = "pic_get"
    /\ req' = IF o = "ok"
              THEN [req EXCEPT ![r].pc = "pic_probe", ![r].userData = users[req[r].uid]]
              ELSE Respond(r, 500)
    /\ UNCHANGED <<users, documents, bucket, nextDoc, nextPic, authUsers>>

\* the size of the old picture as the store reports it; 0 when there is none, when
\* the object is gone or when exists()/getMetadata() throws (swallowed)
OldProfilePictureSize(path, o) ==
    IF path # NoPath /\ o = "ok" /\ path \in DOMAIN bucket THEN bucket[path] ELSE 0

\* await oldFile.exists(), await oldFile.getMetadata(), then the quota check
PicProbe(r, o) ==
    /\ req[r].pc = "pic_probe"
    /\ LET old == OldProfilePictureSize(req[r].userData.profilePicturePath, o)
           new == PicNewTotalSize(req[r].userData.totalSize, old, req[r].size)
       IN  req' = IF QuotaExceeded(new)
                  THEN [req EXCEPT ![r].pc = "done",
                                   ![r].resp = QuotaResponse(req[r].userData.totalSize,
                                                             req[r].size)]
                  ELSE [req EXCEPT ![r].pc = "pic_save",
                                   ![r].oldProfilePictureSize = old,
                                   ![r].newTotalSize = new]
    /\ UNCHANGED <<users, documents, bucket, nextDoc, nextPic, authUsers>>

\* await fileUpload.save(file.buffer, ...)
PicSave(r, o) ==
    /\ req[r].pc = "pic_save"
    /\ IF o = "ok"
       THEN /\ bucket' = Put(bucket, PicPath(nextPic), req[r].size)
            /\ nextPic' = nextPic + 1
            /\ req' = [req EXCEPT ![r].pc = "pic_sign", ![r].fileName = PicPath(nextPic)]
       ELSE /\ req' = Respond(r, 500)
            /\ UNCHANGED <<bucket, nextPic>>
    /\ UNCHANGED <<users, documents, nextDoc, authUsers>>

\* await fileUpload.getSignedUrl(...)
PicSign(r, o) ==
    /\ req[r].pc = "pic_sign"
    /\ req' = IF o = "ok" THEN [req EXCEPT ![r].pc = "pic_update"] ELSE Respond(r, 500)
    /\ UNCHANGED <<users, documents, bucket, nextDoc, nextPic, authUsers>>

\* the old object deleted before the record is updated
PicUpdateUser_DeleteFirst(r, o) ==
    /\ req[r].pc = "pic_update"
    /\ LET old == req[r].userData.profilePicturePath
           gone == old # NoPath /\ req[r].oldProfilePictureSize > 0 /\ old \in DOMAIN bucket
       IN  /\ bucket' = IF gone THEN Remove(bucket, old) ELSE bucket
           /\ IF o = "ok"
              THEN /\ users' = [users EXCEPT
                         ![req[r].uid].profilePicturePath = req[r].fileName,
                         ![req[r].uid].totalSize = req[r].newTotalSize]
                   /\ req' = [req EXCEPT ![r].pc = "pic_delete",
                                         ![r].deleted = IF gone THEN @ \cup {old} ELSE @]
              ELSE /\ req' = [Respond(r, 500) EXCEPT
                                  ![r].deleted = IF gone THEN @ \cup {old} ELSE @]
                   /\ UNCHANGED users
    /\ UNCHANGED <<documents, nextDoc, nextPic, authUsers>>

\* await userRef.update({profilePicturePath: fileName, totalSize: newTotalSize})
PicUpdateUser(r, o) ==
    /\ req[r].pc = "pic_update"
    /\ IF o = "ok"
       THEN /\ users' = [users EXCEPT
                  ![req[r].uid].profilePicturePath = req[r].fileName,
                  ![req[r].uid].totalSize = req[r].newTotalSize]
            /\ req' = [req EXCEPT ![r].pc = "pic_delete"]
       ELSE /\ req' = Respond(r, 500)
            /\ UNCHANGED users
    /\ UNCHANGED <<documents, bucket, nextDoc, nextPic, authUsers>>

\* if (profilePicturePath && oldProfilePictureSize > 0) try { await oldFile.delete() }
\* catch { log }, then 200
PicDeleteOld(r, o) ==
    /\ req[r].pc = "pic_delete"
    /\ LET old == req[r].userData.profilePicturePath
       IN  IF /\ old # NoPath
              /\ req[r].oldProfilePictureSize > 0
              /\ o = "ok"
              /\ old \in DOMAIN bucket
           THEN /\ bucket' = Remove(bucket, old)
                /\ req' = [Respond(r, 200) EXCEPT ![r].deleted = @ \cup {old}]
           ELSE /\ req' = Respond(r, 200)
                /\ UNCHANGED bucket
    /\ UNCHANGED <<users, documents, nextDoc, nextPic, authUsers>>

----------------------------------------------------------------------------
(* PUT /:documentId/toggle-visibility *)

\* req.body.isDocShow: a boolean, missing (undefined or null), or of another type
ToggleBodies ==
    {[kind |-> "boolean", value |-> TRUE], [kind |-> "boolean", value |-> FALSE],
     [kind |-> "missing", value |-> FALSE], [kind |-> "string", value |-> FALSE]}

\* the findIndex callback: an object with a docId is compared by docId, anything
\* else (the old format, a bare id) is compared itself
IsEntryOf(doc, documentId) ==
    IF doc.shape = "current" /\ "docId" \in DOMAIN doc
    THEN doc.docId = documentId
    ELSE doc.shape = "legacy" /\ doc.docId = documentId

\* an id that is not found taken for the last entry (-1 used as an index from the end)
DocumentIndex_OrLast(list, documentId) ==
    IF \E i \in 1..Len(list) : IsEntryOf(list[i], documentId)
    THEN CHOOSE i \in 1..Len(list) :
            /\ IsEntryOf(list[i], documentId)
            /\ \A j \in 1..(i - 1) : ~IsEntryOf(list[j], documentId)
    ELSE Len(list)

\* documents.findIndex(...), 1-based; 0 stands for -1
DocumentIndex(list, documentId) ==
    IF \E i \in 1..Len(list) : IsEntryOf(list[i], documentId)
    THEN CHOOSE i \in 1..Len(list) :
            /\ IsEntryOf(list[i], documentId)
            /\ \A j \in 1..(i - 1) : ~IsEntryOf(list[j], documentId)
    ELSE 0

\* every entry rebuilt from the id and the flag alone
ToggledEntry_Rebuilt(doc, documentId, isDocShow) ==
    [shape |-> "current", docId |-> documentId, isDocShow |-> isDocShow]

\* new format: {...entry, isDocShow}; old format: {docId: documentId, isDocShow}
ToggledEntry(doc, documentId, isDocShow) ==
    IF doc.shape = "current"
    THEN Put(doc, "isDocShow", isDocShow)
    ELSE [shape |-> "current", docId |-> documentId, isDocShow |-> isDocShow]

\* the toggled entry pushed to the end, the entry at documentIndex left in place
ToggledDocuments_Appended(list, documentIndex, documentId, isDocShow) ==
    IF documentIndex = 0 THEN list
    ELSE Append(list, ToggledEntry(list[documentIndex], documentId, isDocShow))

\* updatedDocuments: the copy of the list with the entry at documentIndex replaced
ToggledDocuments(list, documentIndex, documentId, isDocShow) ==
    [i \in 1..Len(list) |->
        IF i = documentIndex THEN ToggledEntry(list[i], documentId, isDocShow) ELSE list[i]]

\* the validation of req.body.isDocShow precedes every await
StartToggle(r, u, d, body) ==
    /\ req[r].pc = "idle"
    /\ LET started == [Idle EXCEPT !.pc = "tog_get", !.op = "toggle", !.uid = u,
                                   !.documentId = d, !.isDocShow = body.value,
                                   !.bodyKind = body.kind,
                                   !.pre = Snapshot]
       IN  req' = [req EXCEPT ![r] =
                      IF body.kind = "boolean" THEN started
                      ELSE [started EXCEPT !.pc = "done",
                                           !.resp = [NoResp EXCEPT !.status = 400]]]
    /\ UNCHANGED <<users, documents, bucket, nextDoc, nextPic, authUsers>>

\* await userRef.get(), then the 404 checks and the computation of updatedDocuments
ToggleGetUser(r, o) ==
    /\ req[r].pc = "tog_get"
    /\ req' = IF o # "ok" THEN Respond(r, 500)
              ELSE IF req[r].uid \notin DOMAIN users THEN Respond(r, 404)
              ELSE IF DocumentIndex(users[req[r].uid].documents, req[r].documentId) = 0
                   THEN Respond(r, 404)
              ELSE [req EXCEPT ![r].pc = "tog_update", ![r].userData = users[req[r].uid],
                               ![r].documentIndex =
                                   DocumentIndex(users[req[r].uid].documents,
                                                 req[r].documentId)]
    /\ UNCHANGED <<users, documents, bucket, nextDoc, nextPic, authUsers>>

\* await userRef.update({documents: updatedDocuments, updatedAt}), then 200
ToggleUpdateUser(r, o) ==
    /\ req[r].pc = "tog_update"
    /\ IF o = "ok"
       THEN /\ users' = [users EXCEPT ![req[r].uid].documents =
                            ToggledDocuments(req[r].userData.documents,
                                             req[r].documentIndex, req[r].documentId,
                                             req[r].isDocShow)]
            /\ req' = Respond(r, 200)
       ELSE /\ req' = Respond(r, 500)
            /\ UNCHANGED users
    /\ UNCHANGED <<documents, bucket, nextDoc, nextPic, authUsers>>

----------------------------------------------------------------------------
(* POST /get-documents-by-pin *)

\* req.body.pin; the empty string stands for a missing pin
RequestPins == {"", "1234", "9999"}

\* req.body.userId: a user, an id without a user record, or a missing userId
RequestUserIds == Users \cup {"u9", ""}

\* !userData?.masterPin
MasterPinNotSet(userData) == "masterPin" \notin DOMAIN userData \/ userData.masterPin = ""

\* every object entry passes, whatever its isDocShow
IsVisible_AnyObject(doc) == doc.shape = "current"

\* typeof doc === 'object' && doc.isDocShow === true
IsVisible(doc) ==
    doc.shape = "current" /\ "isDocShow" \in DOMAIN doc /\ doc.isDocShow = TRUE

\* visibleDocuments
VisibleDocuments(list) == SelectSeq(list, IsVisible)

\* the pin is compared before it is known that a master pin is set
PinDecision_NoSetCheck(userData, pin) ==
    IF "masterPin" \in DOMAIN userData /\ userData.masterPin # pin THEN 401 ELSE 200

\* the two 401 branches: master pin not set, invalid pin
PinDecision(userData, pin) ==
    IF MasterPinNotSet(userData) THEN 401
    ELSE IF userData.masterPin # pin THEN 401
    ELSE 200

\* if (!userId || !pin) return 400
StartPin(r, userId, pin) ==
    /\ req[r].pc = "idle"
    /\ LET started == [Idle EXCEPT !.pc = "pin_get", !.op = "pin", !.uid = userId,
                                   !.pin = pin, !.pre = Snapshot]
       IN  req' = [req EXCEPT ![r] =
                      IF userId = "" \/ pin = ""
                      THEN [started EXCEPT !.pc = "done",
                                           !.resp = [NoResp EXCEPT !.status = 400]]
                      ELSE started]
    /\ UNCHANGED <<users, documents, bucket, nextDoc, nextPic, authUsers>>

\* await db.collection('users').doc(userId).get(), then the 404 and 401 checks and
\* the filter
PinGetUser(r, o) ==
    /\ req[r].pc = "pin_get"
    /\ req' = IF o # "ok" THEN Respond(r, 500)
              ELSE IF req[r].uid \notin DOMAIN users THEN Respond(r, 404)
              ELSE IF PinDecision(users[req[r].uid], req[r].pin) # 200
                   THEN Respond(r, PinDecision(users[req[r].uid], req[r].pin))
              ELSE [req EXCEPT ![r].pc = "pin_urls", ![r].userData = users[req[r].uid],
                               ![r].data = VisibleDocuments(users[req[r].uid].documents)]
    /\ UNCHANGED <<users, documents, bucket, nextDoc, nextPic, authUsers>>

\* the URL returned with a visible entry: downloadURL || doc.downloadURL, where
\* downloadURL is a new signed URL when the DocumentRecord exists and has a
\* storagePath and neither get() nor getSignedUrl() throws (failing: the documents
\* for which one of them throws), and the entry's own downloadURL otherwise
PinUrl(doc, failing) ==
    IF /\ doc.docId \notin failing
       /\ doc.docId \in DOMAIN documents
       /\ documents[doc.docId].storagePath # NoPath
    THEN SignedUrl(documents[doc.docId].storagePath, "pin")
    ELSE IF "downloadURL" \in DOMAIN doc THEN doc.downloadURL ELSE NoUrl

\* await Promise.all(...): a signed URL per visible document, every error swallowed,
\* then 200 with the visible descriptors
PinUrls(r, failing) ==
    /\ req[r].pc = "pin_urls"
    /\ req' = [Respond(r, 200) EXCEPT
                  ![r].urls = [i \in 1..Len(req[r].data) |-> PinUrl(req[r].data[i], failing)]]
    /\ UNCHANGED <<users, documents, bucket, nextDoc, nextPic, authUsers>>

----------------------------------------------------------------------------
(* PUT /update-profile, as far as it sets masterPin *)

\* req.body.masterPin
MasterPins == {"", "1234"}

StartProfile(r, u, p) ==
    /\ req[r].pc = "idle"
    /\ req' = [req EXCEPT ![r] = [Idle EXCEPT !.pc = "prof_update", !.op = "profile",
                                              !.uid = u, !.pin = p, !.pre = Snapshot]]
    /\ UNCHANGED <<users, documents, bucket, nextDoc, nextPic, authUsers>>

\* await userRef.update(fieldsToUpdate)
ProfileUpdate(r, o) ==
    /\ req[r].pc = "prof_update"
    /\ IF o = "ok"
       THEN /\ users' = [users EXCEPT ![req[r].uid] = Put(@, "masterPin", req[r].pin)]
            /\ req' = [req EXCEPT ![r].pc = "prof_get"]
       ELSE /\ req' = Respond(r, 500)
            /\ UNCHANGED users
    /\ UNCHANGED <<documents, bucket, nextDoc, nextPic, authUsers>>

\* await userRef.get(), then 200
ProfileGet(r, o) ==
    /\ req[r].pc = "prof_get"
    /\ req' = IF o = "ok" THEN Respond(r, 200) ELSE Respond(r, 500)
    /\ UNCHANGED <<users, documents, bucket, nextDoc, nextPic, authUsers>>

----------------------------------------------------------------------------
(* GET /:documentId and POST /my-documents *)

\* let downloadURL = docData.downloadURL; if (docData.storagePath) try { downloadURL =
\* await file.getSignedUrl(...) } catch { keep the original URL }
ReadUrl(docData, o, op) ==
    IF docData.storagePath # NoPath /\ o = "ok"
    THEN SignedUrl(docData.storagePath, op)
    ELSE docData.downloadURL

StartGet(r, d) ==
    /\ req[r].pc = "idle"
    /\ req' = [req EXCEPT ![r] = [Idle EXCEPT !.pc = "get_load", !.op = "get",
                                              !.documentId = d, !.pre = Snapshot]]
    /\ UNCHANGED <<users, documents, bucket, nextDoc, nextPic, authUsers>>

\* await db.collection('documents').doc(documentId).get(), then the 404 check
GetLoad(r, o) ==
    /\ req[r].pc = "get_load"
    /\ req' = IF o # "ok" THEN Respond(r, 500)
              ELSE IF req[r].documentId \notin DOMAIN documents THEN Respond(r, 404)
              ELSE [req EXCEPT ![r].pc = "get_sign",
                               ![r].docData = documents[req[r].documentId]]
    /\ UNCHANGED <<users, documents, bucket, nextDoc, nextPic, authUsers>>

\* await file.getSignedUrl(...) in its own try, then 200
GetSign(r, o) ==
    /\ req[r].pc = "get_sign"
    /\ req' = [Respond(r, 200) EXCEPT ![r].urls = <<ReadUrl(req[r].docData, o, "get")>>]
    /\ UNCHANGED <<users, documents, bucket, nextDoc, nextPic, authUsers>>

\* how the ordered query can end: it resolves, it throws for the missing composite
\* index, or it throws otherwise
QueryOutcomes == {"ok", "index", "throw"}

RECURSIVE NewestFirst(_)
\* orderBy('uploadedAt', 'desc'): the ids of S, the latest upload first
NewestFirst(S) ==
    IF S = {} THEN <<>>
    ELSE LET d == CHOOSE x \in S : \A y \in S : y <= x
         IN  <<d>> \o NewestFirst(S \ {d})

\* documentsSnapshot.docs: the DocumentRecords of userId
UserDocuments(userId) ==
    LET ids == NewestFirst({d \in DOMAIN documents : documents[d].userId = userId})
    IN  [i \in 1..Len(ids) |-> [id |-> ids[i], docData |-> documents[ids[i]]]]

\* if (!userId) return 400
StartMyDocuments(r, userId) ==
    /\ req[r].pc = "idle"
    /\ LET started == [Idle EXCEPT !.pc = "my_query", !.op = "my-documents",
                                   !.uid = userId, !.pre = Snapshot]
       IN  req' = [req EXCEPT ![r] =
                      IF userId = ""
                      THEN [started EXCEPT !.pc = "done",
                                           !.resp = [NoResp EXCEPT !.status = 400]]
                      ELSE started]
    /\ UNCHANGED <<users, documents, bucket, nextDoc, nextPic, authUsers>>

\* await db.collection('documents').where(...).orderBy(...).get()
MyDocumentsQuery(r, o) ==
    /\ req[r].pc = "my_query"
    /\ req' = IF o = "ok"
              THEN [req EXCEPT ![r].pc = "my_sign", ![r].data = UserDocuments(req[r].uid)]
              ELSE IF o = "index" THEN [req EXCEPT ![r].pc = "my_requery"]
              ELSE Respond(r, 500)
    /\ UNCHANGED <<users, documents, bucket, nextDoc, nextPic, authUsers>>

\* await db.collection('documents').where(...).get(), sorted in memory
MyDocumentsRequery(r, o) ==
    /\ req[r].pc = "my_requery"
    /\ req' = IF o = "ok"
              THEN [req EXCEPT ![r].pc = "my_sign", ![r].data = UserDocuments(req[r].uid)]
              ELSE Respond(r, 500)
    /\ UNCHANGED <<users, documents, bucket, nextDoc, nextPic, authUsers>>

\* await Promise.all(...): getSignedUrl() per document, each in its own try
\* (failing: the documents for which it throws), then 200
MyDocumentsSign(r, failing) ==
    /\ req[r].pc = "my_sign"
    /\ req' = [Respond(r, 200) EXCEPT
                  ![r].urls = [i \in 1..Len(req[r].data) |->
                                  ReadUrl(req[r].data[i].docData,
                                          IF req[r].data[i].id \in failing THEN "throw"
                                                                           ELSE "ok",
                                          "my-documents")]]
    /\ UNCHANGED <<users, documents, bucket, nextDoc, nextPic, authUsers>>

----------------------------------------------------------------------------
(* authenticateToken in front of PUT /update-profile, and POST /logout *)

\* seconds at which tokens are issued and revoked
Times == 1..MaxTime

\* the signature part of a token: made by the identity provider, or not
Signatures == {"signed", "forged"}

\* an ID token as its dot-separated parts: header, payload, signature
IdToken(uid, authTime, signature) ==
    <<"header", [uid |-> uid, auth_time |-> authTime], signature>>

\* the tokens a client can send: none, two parts only, and three-part tokens
IdTokens ==
    {<<>>, <<"header", [uid |-> "u1", auth_time |-> 1]>>}
        \cup {IdToken(uid, t, sig) : uid \in Users, t \in Times, sig \in Signatures}

\* the Authorization headers a client can send
Headers ==
    {NoHeader} \cup {[scheme |-> sc, token |-> tok] :
                        sc \in {"Bearer", "bearer", "Basic"}, tok \in IdTokens}

\* authHeader.match(/^Bearer\s+(.+)$/i): the scheme in any case and a token of at
\* least one character
BearerMatch(header) ==
    header.scheme \in {"Bearer", "bearer", "BEARER"} /\ header.token # <<>>

\* idToken.split('.').length
TokenParts(token) == Len(token)

\* how admin.auth().verifyIdToken(idToken) can end
VerifyOutcomes ==
    {"ok", "auth/id-token-expired", "auth/id-token-revoked", "auth/argument-error"}

\* verifyIdToken resolves only for a three-part token that the provider signed
CanVerify(token, o) == o = "ok" => (Len(token) = 3 /\ token[3] = "signed")

\* decodedToken
Decoded(token) == token[2]

\* the revocation check left out
TokenRevoked_Never(decodedToken, userRecord) == FALSE

\* tokensValidAfterTime exists and tokenAuthTime < revokedTime, both in milliseconds
TokenRevoked(decodedToken, userRecord) ==
    /\ userRecord.tokensValidAfterTime # NoTime
    /\ decodedToken.auth_time * 1000 < userRecord.tokensValidAfterTime * 1000

\* the header checks precede every await; the body (masterPin) waits for the handler
StartAuth(r, header, p) ==
    /\ req[r].pc = "idle"
    /\ LET started == [Idle EXCEPT !.pc = "auth_verify", !.op = "auth", !.pin = p,
                                   !.authorization = header, !.pre = Snapshot]
           refused == [started EXCEPT !.pc = "done",
                                      !.resp = [NoResp EXCEPT !.status = 401]]
       IN  req' = [req EXCEPT ![r] =
                      IF header = NoHeader THEN refused
                      ELSE IF ~BearerMatch(header) THEN refused
                      ELSE IF TokenParts(header.token) # 3 THEN refused
                      ELSE started]
    /\ UNCHANGED <<users, documents, bucket, nextDoc, nextPic, authUsers>>

\* await admin.auth().verifyIdToken(idToken); every throw is answered 401
AuthVerify(r, o) ==
    /\ req[r].pc = "auth_verify"
    /\ CanVerify(req[r].authorization.token, o)
    /\ req' = IF o = "ok" THEN [req EXCEPT ![r].pc = "auth_user"] ELSE Respond(r, 401)
    /\ UNCHANGED <<users, documents, bucket, nextDoc, nextPic, authUsers>>

\* await admin.auth().getUser(decodedToken.uid), the revocation check, then req.user
\* is set and next() enters the handler, which runs up to its first await
AuthGetUser(r, o) ==
    /\ req[r].pc = "auth_user"
    /\ LET decodedToken == Decoded(req[r].authorization.token)
       IN  req' = IF o # "ok" THEN Respond(r, 401)
                  ELSE IF TokenRevoked(decodedToken, authUsers[decodedToken.uid])
                       THEN Respond(r, 401)
                  ELSE [req EXCEPT ![r].pc = "prof_update", ![r].op = "profile",
                                   ![r].uid = decodedToken.uid]
    /\ UNCHANGED <<users, documents, bucket, nextDoc, nextPic, authUsers>>

\* req.body of POST /logout: uid (of a user or of nobody), idToken, both or neither
\* ("" and <<>> when missing)
LogoutBodies ==
    {[uid |-> uid, idToken |-> tok] :
        uid \in Users \cup {"u9", ""},
        tok \in {<<>>, IdToken("u1", 1, "signed"), IdToken("u2", 1, "forged")}}

\* if (!uid && !idToken) return 400; the token is verified only when uid is missing
StartLogout(r, body) ==
    /\ req[r].pc = "idle"
    /\ LET started == [Idle EXCEPT !.pc = "out_revoke", !.op = "logout", !.uid = body.uid,
                                   !.authorization = [scheme |-> "", token |-> body.idToken],
                                   !.pre = Snapshot]
       IN  req' = [req EXCEPT ![r] =
                      IF body.uid = "" /\ body.idToken = <<>>
                      THEN [started EXCEPT !.pc = "done",
                                           !.resp = [NoResp EXCEPT !.status = 400]]
                      ELSE IF body.uid = "" THEN [started EXCEPT !.pc = "out_verify"]
                      ELSE started]
    /\ UNCHANGED <<users, documents, bucket, nextDoc, nextPic, authUsers>>

\* await admin.auth().verifyIdToken(idToken) in its own try: a throw is answered 401
LogoutVerify(r, o) ==
    /\ req[r].pc = "out_verify"
    /\ CanVerify(req[r].authorization.token, o)
    /\ req' = IF o = "ok"
              THEN [req EXCEPT ![r].pc = "out_revoke",
                               ![r].uid = Decoded(req[r].authorization.token).uid]
              ELSE Respond(r, 401)
    /\ UNCHANGED <<users, documents, bucket, nextDoc, nextPic, authUsers>>

\* await admin.auth().revokeRefreshTokens(userId): tokensValidAfterTime becomes the
\* current second t, which is not before the last revocation; auth/user-not-found
\* is answered 404, any other throw 500
LogoutRevoke(r, o, t) ==
    /\ req[r].pc = "out_revoke"
    /\ IF req[r].uid \notin DOMAIN authUsers
       THEN /\ req' = Respond(r, 404)
            /\ UNCHANGED authUsers
       ELSE IF o = "ok"
       THEN /\ t >= authUsers[req[r].uid].tokensValidAfterTime
            /\ authUsers' = [authUsers EXCEPT ![req[r].uid].tokensValidAfterTime = t]
            /\ req' = [req EXCEPT ![r].pc = "out_update"]
       ELSE /\ req' = Respond(r, 500)
            /\ UNCHANGED authUsers
    /\ UNCHANGED <<users, documents, bucket, nextDoc, nextPic>>

\* await db.collection('users').doc(userId).update({lastLogoutAt, updatedAt}), then 200
LogoutUpdate(r, o) ==
    /\ req[r].pc = "out_update"
    /\ req' = IF o = "ok" THEN Respond(r, 200) ELSE Respond(r, 500)
    /\ UNCHANGED <<users, documents, bucket, nextDoc, nextPic, authUsers>>

----------------------------------------------------------------------------
(* GET /auth/me and POST /auth/verify-token *)

\* the header checks of GET /me precede its first await
StartMe(r, header) ==
    /\ req[r].pc = "idle"
    /\ LET started == [Idle EXCEPT !.pc = "me_verify", !.op = "me",
                                   !.authorization = header, !.pre = Snapshot]
           refused == [started EXCEPT !.pc = "done",
                                      !.resp = [NoResp EXCEPT !.status = 401]]
       IN  req' = [req EXCEPT ![r] =
                      IF header = NoHeader THEN refused
                      ELSE IF ~BearerMatch(header) THEN refused
                      ELSE IF TokenParts(header.token) # 3 THEN refused
                      ELSE started]
    /\ UNCHANGED <<users, documents, bucket, nextDoc, nextPic, authUsers>>

\* await admin.auth().verifyIdToken(idToken); every throw is answered 401
MeVerify(r, o) ==
    /\ req[r].pc = "me_verify"
    /\ CanVerify(req[r].authorization.token, o)
    /\ req' = IF o = "ok"
              THEN [req EXCEPT ![r].pc = "me_get",
                               ![r].uid = Decoded(req[r].authorization.token).uid]
              ELSE Respond(r, 401)
    /\ UNCHANGED <<users, documents, bucket, nextDoc, nextPic, authUsers>>

\* await db.collection('users').doc(decodedToken.uid).get(), then 200 with the
\* user record in data; a throw is answered 401
MeGet(r, o) ==
    /\ req[r].pc = "me_get"
    /\ req' = IF o = "ok"
              THEN [req EXCEPT ![r].pc = "done",
                               ![r].resp = [NoResp EXCEPT !.status = 200],
                               ![r].data = <<users[req[r].uid]>>]
              ELSE Respond(r, 401)
    /\ UNCHANGED <<users, documents, bucket, nextDoc, nextPic, authUsers>>

\* req.body.idToken of POST /verify-token; if (!idToken) return 400
StartVerifyToken(r, idToken) ==
    /\ req[r].pc = "idle"
    /\ LET started == [Idle EXCEPT !.pc = "vt_verify", !.op = "verify-token",
                                   !.authorization = [scheme |-> "", token |-> idToken],
                                   !.pre = Snapshot]
       IN  req' = [req EXCEPT ![r] =
                      IF idToken = <<>>
                      THEN [started EXCEPT !.pc = "done",
                                           !.resp = [NoResp EXCEPT !.status = 400]]
                      ELSE started]
    /\ UNCHANGED <<users, documents, bucket, nextDoc, nextPic, authUsers>>

\* await admin.auth().verifyIdToken(idToken); every throw is answered 401
VerifyTokenVerify(r, o) ==
    /\ req[r].pc = "vt_verify"
    /\ CanVerify(req[r].authorization.token, o)
    /\ req' = IF o = "ok"
              THEN [req EXCEPT ![r].pc = "vt_user",
                               ![r].uid = Decoded(req[r].authorization.token).uid]
              ELSE Respond(r, 401)
    /\ UNCHANGED <<users, documents, bucket, nextDoc, nextPic, authUsers>>

\* await admin.auth().getUser(decodedToken.uid), then the revocation check
VerifyTokenGetUser(r, o) ==
    /\ req[r].pc = "vt_user"
    /\ LET decodedToken == Decoded(req[r].authorization.token)
       IN  req' = IF o # "ok" THEN Respond(r, 401)
                  ELSE IF TokenRevoked(decodedToken, authUsers[decodedToken.uid])
                       THEN Respond(r, 401)
                  ELSE [req EXCEPT ![r].pc = "vt_get"]
    /\ UNCHANGED <<users, documents, bucket, nextDoc, nextPic, authUsers>>

\* await db.collection('users').doc(decodedToken.uid).get(), then 200 with the
\* user record in data; a throw is answered 401
VerifyTokenGet(r, o) ==
    /\ req[r].pc = "vt_get"
    /\ req' = IF o = "ok"
              THEN [req EXCEPT ![r].pc = "done",
                               ![r].resp = [NoResp EXCEPT !.status = 200],
                               ![r].data = <<users[req[r].uid]>>]
              ELSE Respond(r, 401)
    /\ UNCHANGED <<users, documents, bucket, nextDoc, nextPic, authUsers>>

----------------------------------------------------------------------------
(* PUT /api/users/:id *)

\* req.body: any JSON object; here one that sets masterPin, totalSize or documents
PutUserBodies == {[masterPin |-> "1234"], [totalSize |-> 0], [documents |-> <<>>]}

\* the record after update({...updateData}): the body's fields replace the record's
Merged(record, updateData) ==
    [k \in DOMAIN record \cup DOMAIN updateData |->
        IF k \in DOMAIN updateData THEN updateData[k] ELSE record[k]]

\* no authentication, no validation
StartPutUser(r, id, updateData) ==
    /\ req[r].pc = "idle"
    /\ req' = [req EXCEPT ![r] = [Idle EXCEPT !.pc = "put_get", !.op = "put-user",
                                              !.uid = id, !.data = <<updateData>>,
                                              !.pre = Snapshot]]
    /\ UNCHANGED <<users, documents, bucket, nextDoc, nextPic, authUsers>>

\* await userRef.get(), then the 404 check
PutUserGet(r, o) ==
    /\ req[r].pc = "put_get"
    /\ req' = IF o # "ok" THEN Respond(r, 500)
              ELSE IF req[r].uid \notin DOMAIN users THEN Respond(r, 404)
              ELSE [req EXCEPT ![r].pc = "put_update"]
    /\ UNCHANGED <<users, documents, bucket, nextDoc, nextPic, authUsers>>

\* await userRef.update({...updateData, updatedAt}), then 200
PutUserUpdate(r, o) ==
    /\ req[r].pc = "put_update"
    /\ IF o = "ok"
       THEN /\ users' = [users EXCEPT ![req[r].uid] = Merged(@, req[r].data[1])]
            /\ req' = Respond(r, 200)
       ELSE /\ req' = Respond(r, 500)
            /\ UNCHANGED users
    /\ UNCHANGED <<documents, bucket, nextDoc, nextPic, authUsers>>

----------------------------------------------------------------------------
(* Every request ends by returning its response *)

Return(r) ==
    /\ req[r].pc = "done"
    /\ req' = [req EXCEPT ![r] = Idle]
    /\ UNCHANGED <<users, documents, bucket, nextDoc, nextPic, authUsers>>

----------------------------------------------------------------------------
(* Specifications *)

\* Requests of the callers in C, in the slots S; a call that deletes a stored object
\* ends with an outcome in OD, every other awaited call with one in O; at most md
\* document uploads and mp stored profile pictures.
NextOf(S, C, O, OD, md, mp) ==
    \E r \in S :
        \/ \E u \in C, s \in FileSizes : nextDoc <= md /\ StartUpload(r, u, s)
        \/ \E o \in O : UploadSave(r, o)
        \/ \E o \in O : UploadSign(r, o)
        \/ \E o \in O : UploadAdd(r, o)
        \/ \E o \in O : UploadGetUser(r, o)
        \/ \E o \in O : UploadUpdateUser(r, o)
        \/ \E o \in O : UploadTouch(r, o)
        \/ \E u \in C, d \in 1..md : StartDelete(r, u, d)
        \/ \E o \in O : DeleteLoad(r, o)
        \/ \E o \in OD : DeleteFile(r, o)
        \/ \E o \in O : DeleteDoc(r, o)
        \/ \E o \in O : DeleteGetUser(r, o)
        \/ \E o \in O : DeleteUpdateUser(r, o)
        \/ \E u \in C, s \in PicSizes : nextPic <= mp /\ StartPic(r, u, s)
        \/ \E o \in O : PicGetUser(r, o)
        \/ \E o \in O : PicProbe(r, o)
        \/ \E o \in O : PicSave(r, o)
        \/ \E o \in O : PicSign(r, o)
        \/ \E o \in O : PicUpdateUser(r, o)
        \/ \E o \in OD : PicDeleteOld(r, o)
        \/ Return(r)

\* Serialized requests (one slot) of both users; no external call fails
Next == NextOf({"r1"}, Users, Resolves, Resolves, MaxDocs, MaxPics)

Spec == Init /\ [][Next]_vars

\* Serialized requests of one user, enough uploads to pass the quota; no external
\* call fails
NextQuota == NextOf({"r1"}, {"u1"}, Resolves, Resolves, MaxDocsQ, MaxPicsQ)

SpecQuota == Init /\ [][NextQuota]_vars

\* Serialized requests of one user; any awaited external call may throw
NextFail == NextOf({"r1"}, {"u1"}, ResolvesOrThrows, ResolvesOrThrows, MaxDocsF, MaxPicsF)

SpecFail == Init /\ [][NextFail]_vars

\* Serialized requests of one user; only the deletion of a stored object may throw
NextStore == NextOf({"r1"}, {"u1"}, Resolves, ResolvesOrThrows, MaxDocs, MaxPics)

SpecStore == Init /\ [][NextStore]_vars

\* Serialized requests of one user; any awaited external call may throw except the
\* deletion of a stored object
NextProbe == NextOf({"r1"}, {"u1"}, ResolvesOrThrows, Resolves, MaxDocsF, MaxPicsF)

SpecProbe == Init /\ [][NextProbe]_vars

\* file.size of each document stored before the first request of SpecList
SeededSize == 4 * 1024 * 1024

\* the entries a documents array can hold for document d: the old format (the
\* bare id), the descriptor written by the upload, the same descriptor hidden, and
\* an object written before isDocShow existed
SeededEntries(d) ==
    {[shape |-> "legacy", docId |-> d],
     DocDetails(d, SeededSize),
     [DocDetails(d, SeededSize) EXCEPT !.isDocShow = FALSE],
     [shape |-> "current", docId |-> d, docSize |-> SeededSize]}

\* the documents arrays over the seeded documents, in upload order
SeededLists ==
    {list \in [1..SeededDocs -> UNION {SeededEntries(d) : d \in 1..SeededDocs}] :
        \A d \in 1..SeededDocs : list[d] \in SeededEntries(d)}

\* u1 is a user of long standing: SeededDocs documents, entries of every format, no
\* masterPin field yet; the other users are freshly registered
InitList ==
    /\ users \in {[u \in Users |->
                    IF u = "u1"
                    THEN [totalSize |-> SeededDocs * SeededSize, documents |-> list,
                          profilePicturePath |-> NoPath]
                    ELSE RegisteredUser] : list \in SeededLists}
    /\ documents = [d \in 1..SeededDocs |->
                       [userId |-> "u1", storagePath |-> DocPath(d), fileSize |-> SeededSize,
                        downloadURL |-> SignedUrl(DocPath(d), "upload")]]
    /\ bucket = [path \in {DocPath(d) : d \in 1..SeededDocs} |-> SeededSize]
    /\ nextDoc = SeededDocs + 1
    /\ nextPic = 1
    /\ authUsers = [u \in Users |-> RegisteredAuthUser]
    /\ req = [r \in Slots |-> Idle]

\* the requests that read or write the documents array and masterPin
NextListOf(S, C, O, md) ==
    \E r \in S :
        \/ \E u \in C, s \in FileSizes : nextDoc <= md /\ StartUpload(r, u, s)
        \/ \E o \in O : UploadSave(r, o)
        \/ \E o \in O : UploadSign(r, o)
        \/ \E o \in O : UploadAdd(r, o)
        \/ \E o \in O : UploadGetUser(r, o)
        \/ \E o \in O : UploadUpdateUser(r, o)
        \/ \E o \in O : UploadTouch(r, o)
        \/ \E u \in C, d \in 1..md : StartDelete(r, u, d)
        \/ \E o \in O : DeleteLoad(r, o)
        \/ \E o \in O : DeleteFile(r, o)
        \/ \E o \in O : DeleteDoc(r, o)
        \/ \E o \in O : DeleteGetUser(r, o)
        \/ \E o \in O : DeleteUpdateUser(r, o)
        \/ \E u \in C, d \in 1..md, body \in ToggleBodies : StartToggle(r, u, d, body)
        \/ \E o \in O : ToggleGetUser(r, o)
        \/ \E o \in O : ToggleUpdateUser(r, o)
        \/ \E userId \in RequestUserIds, pin \in RequestPins : StartPin(r, userId, pin)
        \/ \E o \in O : PinGetUser(r, o)
        \/ \E failing \in (IF "throw" \in O THEN SUBSET (1..md) ELSE {{}}) :
               PinUrls(r, failing)
        \/ \E u \in C, p \in MasterPins : StartProfile(r, u, p)
        \/ \E o \in O : ProfileUpdate(r, o)
        \/ \E o \in O : ProfileGet(r, o)
        \/ Return(r)

\* Serialized requests on the documents array of u1; no external call fails
NextList == NextListOf({"r1"}, {"u1"}, Resolves, MaxDocsL)

SpecList == InitList /\ [][NextList]_vars

\* Serialized update-profile requests behind authenticateToken, and logouts; the
\* calls to the identity provider may throw
NextAuth ==
    \E r \in {"r1"} :
        \/ \E header \in Headers, p \in MasterPins : StartAuth(r, header, p)
        \/ \E o \in VerifyOutcomes : AuthVerify(r, o)
        \/ \E o \in ResolvesOrThrows : AuthGetUser(r, o)
        \/ \E o \in Resolves : ProfileUpdate(r, o)
        \/ \E o \in Resolves : ProfileGet(r, o)
        \/ \E body \in LogoutBodies : StartLogout(r, body)
        \/ \E o \in VerifyOutcomes : LogoutVerify(r, o)
        \/ \E o \in ResolvesOrThrows, t \in Times : LogoutRevoke(r, o, t)
        \/ \E o \in Resolves : LogoutUpdate(r, o)
        \/ Return(r)

SpecAuth == Init /\ [][NextAuth]_vars

\* Serialized requests of the three endpoints that authenticate by ID token
\* (update-profile behind authenticateToken, GET /auth/me, POST /auth/verify-token)
\* and logouts; the calls to the identity provider and to the database may throw
NextSession ==
    \E r \in {"r1"} :
        \/ \E header \in Headers, p \in MasterPins : StartAuth(r, header, p)
        \/ \E o \in VerifyOutcomes : AuthVerify(r, o)
        \/ \E o \in ResolvesOrThrows : AuthGetUser(r, o)
        \/ \E o \in Resolves : ProfileUpdate(r, o)
        \/ \E o \in Resolves : ProfileGet(r, o)
        \/ \E header \in Headers : StartMe(r, header)
        \/ \E o \in VerifyOutcomes : MeVerify(r, o)
        \/ \E o \in ResolvesOrThrows : MeGet(r, o)
        \/ \E idToken \in IdTokens : StartVerifyToken(r, idToken)
        \/ \E o \in VerifyOutcomes : VerifyTokenVerify(r, o)
        \/ \E o \in ResolvesOrThrows : VerifyTokenGetUser(r, o)
        \/ \E o \in ResolvesOrThrows : VerifyTokenGet(r, o)
        \/ \E body \in LogoutBodies : StartLogout(r, body)
        \/ \E o \in VerifyOutcomes : LogoutVerify(r, o)
        \/ \E o \in ResolvesOrThrows, t \in Times : LogoutRevoke(r, o, t)
        \/ \E o \in Resolves : LogoutUpdate(r, o)
        \/ Return(r)

SpecSession == Init /\ [][NextSession]_vars

\* Two request slots: uploads of one user run concurrently, each awaited call of
\* either request is a step of its own; no external call fails
NextRace ==
    \E r \in Slots :
        \/ \E s \in FileSizes : nextDoc <= MaxDocsR /\ StartUpload(r, "u1", s)
        \/ \E o \in Resolves : UploadSave(r, o)
        \/ \E o \in Resolves : UploadSign(r, o)
        \/ \E o \in Resolves : UploadAdd(r, o)
        \/ \E o \in Resolves : UploadGetUser(r, o)
        \/ \E o \in Resolves : UploadUpdateUser(r, o)
        \/ \E o \in Resolves : UploadTouch(r, o)
        \/ Return(r)

SpecRace == Init /\ [][NextRace]_vars

\* Serialized uploads of one user (none fails) and reads; in the reads the calls to
\* the stores may throw
NextRead ==
    \E r \in {"r1"} :
        \/ \E s \in FileSizes : nextDoc <= MaxDocsD /\ StartUpload(r, "u1", s)
        \/ \E o \in Resolves : UploadSave(r, o)
        \/ \E o \in Resolves : UploadSign(r, o)
        \/ \E o \in Resolves : UploadAdd(r, o)
        \/ \E o \in Resolves : UploadGetUser(r, o)
        \/ \E o \in Resolves : UploadUpdateUser(r, o)
        \/ \E o \in Resolves : UploadTouch(r, o)
        \/ \E d \in 1..MaxDocsD : StartGet(r, d)
        \/ \E o \in ResolvesOrThrows : GetLoad(r, o)
        \/ \E o \in ResolvesOrThrows : GetSign(r, o)
        \/ \E userId \in RequestUserIds : StartMyDocuments(r, userId)
        \/ \E o \in QueryOutcomes : MyDocumentsQuery(r, o)
        \/ \E o \in ResolvesOrThrows : MyDocumentsRequery(r, o)
        \/ \E failing \in SUBSET (1..MaxDocsD) : MyDocumentsSign(r, failing)
        \/ \E p \in MasterPins : StartProfile(r, "u1", p)
        \/ \E o \in Resolves : ProfileUpdate(r, o)
        \/ \E o \in Resolves : ProfileGet(r, o)
        \/ \E userId \in RequestUserIds, pin \in RequestPins : StartPin(r, userId, pin)
        \/ \E o \in ResolvesOrThrows : PinGetUser(r, o)
        \/ \E failing \in SUBSET (1..MaxDocsD) : PinUrls(r, failing)
        \/ Return(r)

SpecRead == Init /\ [][NextRead]_vars

\* Serialized uploads of u1 and, for every user, the requests that are not meant
\* to touch totalSize and documents: update-profile, logout, PUT /api/users/:id;
\* no external call fails
NextFrame ==
    \E r \in {"r1"} :
        \/ \E s \in FileSizes : nextDoc <= MaxDocsW /\ StartUpload(r, "u1", s)
        \/ \E o \in Resolves : UploadSave(r, o)
        \/ \E o \in Resolves : UploadSign(r, o)
        \/ \E o \in Resolves : UploadAdd(r, o)
        \/ \E o \in Resolves : UploadGetUser(r, o)
        \/ \E o \in Resolves : UploadUpdateUser(r, o)
        \/ \E o \in Resolves : UploadTouch(r, o)
        \/ \E u \in Users, p \in MasterPins : StartProfile(r, u, p)
        \/ \E o \in Resolves : ProfileUpdate(r, o)
        \/ \E o \in Resolves : ProfileGet(r, o)
        \/ \E body \in LogoutBodies : StartLogout(r, body)
        \/ \E o \in VerifyOutcomes : LogoutVerify(r, o)
        \/ \E o \in Resolves, t \in Times : LogoutRevoke(r, o, t)
        \/ \E o \in Resolves : LogoutUpdate(r, o)
        \/ \E id \in RequestUserIds \ {""}, body \in PutUserBodies :
               StartPutUser(r, id, body)
        \/ \E o \in Resolves : PutUserGet(r, o)
        \/ \E o \in Resolves : PutUserUpdate(r, o)
        \/ Return(r)

SpecFrame == Init /\ [][NextFrame]_vars

\* Two request slots of one user: uploads in one slot, deletes in both, each
\* awaited call a step of its own; no external call fails, except that the object
\* of a document deleted twice is gone at the second file.delete()
NextTwice ==
    \/ \E s \in FileSizes : nextDoc <= MaxDocsT /\ StartUpload("r1", "u1", s)
    \/ \E r \in Slots :
           \/ \E d \in 1..MaxDocsT : StartDelete(r, "u1", d)
           \/ \E o \in Resolves : UploadSave(r, o)
           \/ \E o \in Resolves : UploadSign(r, o)
           \/ \E o \in Resolves : UploadAdd(r, o)
           \/ \E o \in Resolves : UploadGetUser(r, o)
           \/ \E o \in Resolves : UploadUpdateUser(r, o)
           \/ \E o \in Resolves : UploadTouch(r, o)
           \/ \E o \in Resolves : DeleteLoad(r, o)
           \/ \E o \in Resolves : DeleteFile(r, o)
           \/ \E o \in Resolves : DeleteDoc(r, o)
           \/ \E o \in Resolves : DeleteGetUser(r, o)
           \/ \E o \in Resolves : DeleteUpdateUser(r, o)
           \/ Return(r)

SpecTwice == Init /\ [][NextTwice]_vars

\* Two request slots of one user: uploads in one slot, visibility toggles and deletes in the other, each awaited call a step of
\* its own; no external call fails
NextMix ==
    \/ \E s \in FileSizes : nextDoc <= MaxDocsM /\ StartUpload("r1", "u1", s)
    \/ \E d \in 1..MaxDocsM, v \in BOOLEAN :
           StartToggle("r2", "u1", d, [kind |-> "boolean", value |-> v])
    \/ \E d \in 1..MaxDocsM : StartDelete("r2", "u1", d)
    \/ \E r \in Slots :
           \/ \E o \in Resolves : UploadSave(r, o)
           \/ \E o \in Resolves : UploadSign(r, o)
           \/ \E o \in Resolves : UploadAdd(r, o)
           \/ \E o \in Resolves : UploadGetUser(r, o)
           \/ \E o \in Resolves : UploadUpdateUser(r, o)
           \/ \E o \in Resolves : UploadTouch(r, o)
           \/ \E o \in Resolves : ToggleGetUser(r, o)
           \/ \E o \in Resolves : ToggleUpdateUser(r, o)
           \/ \E o \in Resolves : DeleteLoad(r, o)
           \/ \E o \in Resolves : DeleteFile(r, o)
           \/ \E o \in Resolves : DeleteDoc(r, o)
           \/ \E o \in Resolves : DeleteGetUser(r, o)
           \/ \E o \in Resolves : DeleteUpdateUser(r, o)
           \/ Return(r)

SpecMix == Init /\ [][NextMix]_vars

AllIdle == \A r \in Slots : req[r].pc = "idle"

----------------------------------------------------------------------------
(* Observations used by the properties *)

RECURSIVE SumFileSize(_, _)
\* sum of the recorded fileSize of the DocumentRecords S of the collection docs
SumFileSize(docs, S) ==
    IF S = {} THEN 0
    ELSE LET d == CHOOSE x \in S : TRUE
         IN  docs[d].fileSize + SumFileSize(docs, S \ {d})

\* the undeleted DocumentRecords of user u
DocsOf(u) == {d \in DOMAIN documents : documents[d].userId = u}

\* size of the object the user record of u refers to as its profile picture, in the
\* stores of snapshot snap (0 when there is none)
PictureSizeIn(snap, u) ==
    LET path == snap.users[u].profilePicturePath
    IN  IF path \in DOMAIN snap.bucket THEN snap.bucket[path] ELSE 0

\* the request in slot r has returned its response
Done(r) == req[r].pc = "done"

\* sizes of an old and of a new object, within and beyond the limits of the uploads
ProbeSizes == {0, 1, 1024 * 1024, 5 * 1024 * 1024, 32 * 1024 * 1024}

\* the descriptors of document d in the list
HasDescriptor(list, d) == \E i \in 1..Len(list) : list[i].docId = d

\* the list holds an object entry of document d whose isDocShow is true
Shown(list, d) ==
    \E i \in 1..Len(list) :
        /\ list[i].docId = d
        /\ list[i].shape = "current"
        /\ "isDocShow" \in DOMAIN list[i]
        /\ list[i].isDocShow = TRUE

\* the request in slot r writes the user record for document d in this step
WritesEntryOf(r, d, pcs) ==
    /\ req[r].pc \in pcs
    /\ req[r].documentId = d
    /\ req'[r].pc # req[r].pc

----------------------------------------------------------------------------
(* C1: after any serialized sequence of uploads, deletes and profile-picture
   replacements in which no external call fails, every user's totalSize equals
   the sum of the recorded sizes of the user's undeleted documents plus the size
   of the current profile picture. Checked under Spec. *)
C1_TotalSizeIsSum ==
    (\A r \in Slots : req[r].pc \in {"idle", "done"}) =>
        \A u \in Users :
            users[u].totalSize = SumFileSize(documents, DocsOf(u)) + PictureSizeIn(Snapshot, u)

\* after two uploads, a delete and a picture replacement by u1
C1_Witness ==
    /\ AllIdle
    /\ Cardinality(DocsOf("u1")) = 1
    /\ Len(users["u1"].documents) = 1
    /\ nextDoc = 3
    /\ nextPic = 3
    /\ users["u1"].profilePicturePath = PicPath(2)

(* C2: an upload whose size would take the user past the quota is rejected with
   413 before anything is written: the object store, the documents collection and
   the user records are as they were when the request arrived. Stated of the
   code, this fails: the upload handler has no quota check. Checked under
   SpecQuota. *)
C2_UploadOverQuotaRejected ==
    \A r \in Slots :
        (/\ req[r].op = "upload"
         /\ req[r].pre.users[req[r].uid].totalSize + req[r].size > MAX_STORAGE_SIZE)
        => /\ Snapshot = req[r].pre
           /\ Done(r) => req[r].resp.status = 413

(* C3: from freshly registered users, no serialized sequence of uploads, deletes
   and picture replacements takes a totalSize past MAX_STORAGE_SIZE. Stated of
   the code, this fails (uploads are never checked). Checked under SpecQuota. *)
C3_TotalSizeWithinQuota ==
    \A u \in Users : users[u].totalSize <= MAX_STORAGE_SIZE

(* C4: a profile-picture replacement is accepted (200) iff currentTotal -
   oldPictureSize + newSize <= MAX_STORAGE_SIZE, rejected (413) otherwise, and
   when accepted the user record's totalSize is exactly that value; currentTotal
   and the old picture's size are those of the stores when the request arrived.
   Checked under SpecQuota. *)
C4_PictureQuotaDecision ==
    \A r \in Slots :
        (Done(r) /\ req[r].op = "picture") =>
            LET u == req[r].uid
                newTotal == req[r].pre.users[u].totalSize
                            - PictureSizeIn(req[r].pre, u) + req[r].size
            IN  IF newTotal <= MAX_STORAGE_SIZE
                THEN /\ req[r].resp.status = 200
                     /\ users[u].totalSize = newTotal
                ELSE req[r].resp.status = 413

\* an accepted replacement that fits only because the old picture is subtracted
C4_Witness ==
    \E r \in Slots :
        /\ Done(r) /\ req[r].op = "picture" /\ req[r].resp.status = 200
        /\ PictureSizeIn(req[r].pre, req[r].uid) > 0
        /\ req[r].pre.users[req[r].uid].totalSize + req[r].size > MAX_STORAGE_SIZE

(* C5: a quota rejection is a 413 whose payload reports availableSpace =
   MAX_STORAGE_SIZE - currentTotal and the attempted file size, and it changes
   nothing: object store, documents collection and user records are as they were
   when the request arrived. Checked under SpecQuota. *)
C5_RejectionReportsAndChangesNothing ==
    \A r \in Slots :
        (Done(r) /\ req[r].resp.status = 413) =>
            /\ req[r].resp.availableSpace =
                   MAX_STORAGE_SIZE - req[r].pre.users[req[r].uid].totalSize
            /\ req[r].resp.fileSize = req[r].size
            /\ Snapshot = req[r].pre

\* a rejected replacement of an existing picture by a user within the quota
C5_Witness ==
    \E r \in Slots :
        /\ Done(r) /\ req[r].resp.status = 413
        /\ req[r].pre.users[req[r].uid].totalSize <= MAX_STORAGE_SIZE
        /\ req[r].pre.users[req[r].uid].profilePicturePath # NoPath

(* C6: totalSize is non-negative in every reachable state. Stated of the code,
   this fails: the picture replacement writes currentTotal - oldSize + newSize
   without a floor. Checked under SpecFail. *)
C6_TotalSizeNonNegative ==
    \A u \in Users : users[u].totalSize >= 0

(* C7: a successful delete sets totalSize to max(0, currentTotal - recordedSize),
   recordedSize being the fileSize of the deleted DocumentRecord as it was before
   the delete. Checked under SpecFail. *)
C7_DeleteSubtractsRecordedSize ==
    \A r \in Slots :
        (Done(r) /\ req[r].op = "delete" /\ req[r].resp.status = 200) =>
            LET u == req[r].uid
                recordedSize == req[r].pre.documents[req[r].documentId].fileSize
                currentTotal == req[r].pre.users[u].totalSize
            IN  users[u].totalSize =
                    IF currentTotal - recordedSize >= 0 THEN currentTotal - recordedSize ELSE 0

\* a successful delete of a document whose object is already gone from the store,
\* by a user whose total still counts it
C7_Witness ==
    \E r \in Slots :
        /\ Done(r) /\ req[r].op = "delete" /\ req[r].resp.status = 200
        /\ req[r].pre.documents[req[r].documentId].storagePath \notin DOMAIN req[r].pre.bucket
        /\ req[r].pre.users[req[r].uid].totalSize
               >= req[r].pre.documents[req[r].documentId].fileSize
        /\ users[req[r].uid].totalSize < req[r].pre.users[req[r].uid].totalSize

(* C8: a delete of a document whose DocumentRecord belongs to another user is
   answered 403 and changes nothing: object store, documents collection and
   every user record are as they were when the request arrived. Checked under
   Spec. *)
C8_ForeignDeleteForbidden ==
    \A r \in Slots :
        (/\ req[r].op = "delete"
         /\ req[r].documentId \in DOMAIN req[r].pre.documents
         /\ req[r].pre.documents[req[r].documentId].userId # req[r].uid)
        => /\ Snapshot = req[r].pre
           /\ Done(r) => req[r].resp.status = 403

\* a refused delete of another user's document, the caller owning documents too
C8_Witness ==
    \E r \in Slots :
        /\ Done(r) /\ req[r].op = "delete" /\ req[r].resp.status = 403
        /\ users[req[r].uid].totalSize > 0
        /\ users[req[r].pre.documents[req[r].documentId].userId].totalSize > 0

(* C9: when the deletion of the stored object fails during a delete by the owner,
   the rest still happens: the DocumentRecord is deleted, the descriptor leaves
   the user's documents list, totalSize is decremented by the recorded size and
   the response is 200. Checked under SpecStore (only object deletions fail). *)
C9_StorageFailureSwallowed ==
    \A r \in Slots :
        (/\ Done(r) /\ req[r].op = "delete"
         /\ req[r].documentId \in DOMAIN req[r].pre.documents
         /\ req[r].pre.documents[req[r].documentId].userId = req[r].uid
         /\ req[r].deleted = {})
        => LET u == req[r].uid
               rec == req[r].pre.documents[req[r].documentId]
           IN  /\ req[r].resp.status = 200
               /\ req[r].documentId \notin DOMAIN documents
               /\ ~HasDescriptor(users[u].documents, req[r].documentId)
               /\ Len(users[u].documents) = Len(req[r].pre.users[u].documents) - 1
               /\ users[u].totalSize = Max(0, req[r].pre.users[u].totalSize - rec.fileSize)
               /\ rec.storagePath \in DOMAIN bucket

\* a delete that succeeded although its object is still in the store
C9_Witness ==
    \E r \in Slots :
        /\ Done(r) /\ req[r].op = "delete" /\ req[r].resp.status = 200
        /\ req[r].deleted = {}
        /\ req[r].pre.documents[req[r].documentId].storagePath \in DOMAIN bucket

(* C10: in every state of a profile-picture replacement, also after a failure of
   any of its calls, the user record's profilePicturePath is none of the objects
   this request has deleted. Checked under SpecFail. *)
C10_RecordNeverPointsAtDeleted ==
    \A r \in Slots :
        req[r].op = "picture" =>
            users[req[r].uid].profilePicturePath \notin req[r].deleted

\* a replacement that has deleted the old picture
C10_Witness ==
    \E r \in Slots :
        /\ req[r].op = "picture" /\ req[r].deleted # {}
        /\ users[req[r].uid].profilePicturePath \in DOMAIN bucket

----------------------------------------------------------------------------
(* C11: after a profile-picture replacement that answers 200 and in which the
   deletion of the old object does not fail, the picture object the user record
   referred to before the replacement no longer exists in the bucket. Checked
   under SpecProbe, where the deletion of a stored object never throws. *)
C11_OldPictureGone ==
    \A r \in Slots :
        (/\ Done(r)
         /\ req[r].op = "picture"
         /\ req[r].resp.status = 200
         /\ req[r].pre.users[req[r].uid].profilePicturePath \in DOMAIN req[r].pre.bucket)
        => req[r].pre.users[req[r].uid].profilePicturePath \notin DOMAIN bucket

----------------------------------------------------------------------------
(* C12: an upload of a file of size s that answers 201 for a user whose
   totalSize was t creates exactly one DocumentRecord, owned by the caller and
   with fileSize s, appends exactly one current-shape descriptor with that
   record's id as docId, docSize s and isDocShow true to the user's list, and
   sets the user's totalSize to t + s. Checked under Spec. *)
C12_UploadEffect ==
    \A r \in Slots :
        (Done(r) /\ req[r].op = "upload" /\ req[r].resp.status = 201) =>
            LET u == req[r].uid
                d == req[r].documentId
                pre == req[r].pre
            IN  /\ d \notin DOMAIN pre.documents
                /\ DOMAIN documents = DOMAIN pre.documents \cup {d}
                /\ \A x \in DOMAIN pre.documents : documents[x] = pre.documents[x]
                /\ documents[d].userId = u
                /\ documents[d].fileSize = req[r].size
                /\ users[u].documents =
                       Append(pre.users[u].documents,
                              [shape |-> "current", docId |-> d, docSize |-> req[r].size,
                               isDocShow |-> TRUE])
                /\ users[u].totalSize = pre.users[u].totalSize + req[r].size

\* a 9,800,000-byte upload accepted for a user who already stores a document
C12_Witness ==
    \E r \in Slots :
        /\ Done(r) /\ req[r].op = "upload" /\ req[r].resp.status = 201
        /\ req[r].size = 9800000
        /\ req[r].pre.users[req[r].uid].totalSize = 4 * 1024 * 1024
        /\ users[req[r].uid].totalSize = 4 * 1024 * 1024 + 9800000
        /\ Len(users[req[r].uid].documents) = 2

----------------------------------------------------------------------------
(* C13: removing a document id from a documents array yields exactly the
   entries, old format or new, whose id differs from it, in their original
   order; removing an id that is not in the array leaves the array unchanged;
   removing the same id twice gives the same array as removing it once. Stated
   for every array of a user record and every id, and for the array a
   successful delete writes. Checked under SpecList. *)
C13_RemovalKeepsOthersInOrder ==
    /\ \A u \in Users, d \in 1..nextDoc :
           LET list == users[u].documents
               removed(i) == Cardinality({k \in 1..i : list[k].docId = d})
               result == UpdatedDocuments(list, d)
           IN  /\ Len(result) = Len(list) - removed(Len(list))
               /\ \A i \in 1..Len(list) :
                      list[i].docId # d => result[i - removed(i)] = list[i]
               /\ removed(Len(list)) = 0 => result = list
               /\ UpdatedDocuments(result, d) = result
    /\ \A r \in Slots :
           (Done(r) /\ req[r].op = "delete" /\ req[r].resp.status = 200) =>
               LET before == req[r].pre.users[req[r].uid].documents
                   after == users[req[r].uid].documents
                   d == req[r].documentId
                   removed(i) == Cardinality({k \in 1..i : before[k].docId = d})
               IN  /\ Len(after) = Len(before) - removed(Len(before))
                   /\ \A i \in 1..Len(before) :
                          before[i].docId # d => after[i - removed(i)] = before[i]

\* a delete of document 2, an old-format entry between an old-format entry and an
\* uploaded descriptor
C13_Witness ==
    \E r \in Slots :
        /\ Done(r) /\ req[r].op = "delete" /\ req[r].resp.status = 200
        /\ req[r].documentId = 2
        /\ LET before == req[r].pre.users[req[r].uid].documents
           IN  /\ Len(before) = 3
               /\ before[1].shape = "legacy"
               /\ before[2] = [shape |-> "legacy", docId |-> 2]
               /\ before[3].shape = "current"
               /\ users[req[r].uid].documents = <<before[1], before[3]>>

----------------------------------------------------------------------------
(* C14: a toggle-visibility request that answers 200 replaces an old-format
   entry, at the same position, by an object holding only docId and isDocShow;
   on an object entry it changes only isDocShow and keeps the entry's other
   fields; every other entry of the array stays as it was. Checked under
   SpecList. *)
C14_ToggleReplacesInPlace ==
    \A r \in Slots :
        (Done(r) /\ req[r].op = "toggle" /\ req[r].resp.status = 200) =>
            LET before == req[r].pre.users[req[r].uid].documents
                after == users[req[r].uid].documents
                d == req[r].documentId
                v == req[r].isDocShow
                at == {i \in 1..Len(before) :
                          /\ before[i].docId = d
                          /\ \A j \in 1..(i - 1) : before[j].docId # d}
            IN  /\ Len(after) = Len(before)
                /\ Cardinality(at) = 1
                /\ \A i \in 1..Len(before) :
                       IF i \notin at THEN after[i] = before[i]
                       ELSE IF before[i].shape = "legacy"
                       THEN after[i] = [shape |-> "current", docId |-> d, isDocShow |-> v]
                       ELSE /\ DOMAIN after[i] = DOMAIN before[i] \cup {"isDocShow"}
                            /\ after[i].isDocShow = v
                            /\ \A f \in DOMAIN before[i] \ {"isDocShow"} :
                                   after[i][f] = before[i][f]

\* the old-format entry of document 2, second in the array, made visible
C14_Witness ==
    \E r \in Slots :
        /\ Done(r) /\ req[r].op = "toggle" /\ req[r].resp.status = 200
        /\ req[r].documentId = 2
        /\ req[r].isDocShow = TRUE
        /\ req[r].pre.users[req[r].uid].documents[2] = [shape |-> "legacy", docId |-> 2]
        /\ req[r].pre.users[req[r].uid].documents[1].shape = "current"
        /\ users[req[r].uid].documents[2] =
               [shape |-> "current", docId |-> 2, isDocShow |-> TRUE]
        /\ users[req[r].uid].documents[1] = req[r].pre.users[req[r].uid].documents[1]

----------------------------------------------------------------------------
(* C15: after a toggle-visibility request for document d with value v that
   answers 200, the user's array shows d exactly if v is true; a PIN-gated read
   that answers 200 returns an entry for d exactly if the array shows d; and
   whether the array shows a listed document d changes only in the step of a
   toggle or of a delete of d. Checked under SpecList (serialized requests). *)
C15_ToggleDecidesPinRead ==
    /\ [](\A r \in Slots :
            /\ (Done(r) /\ req[r].op = "toggle" /\ req[r].resp.status = 200) =>
                   (Shown(users[req[r].uid].documents, req[r].documentId)
                       <=> req[r].isDocShow)
            /\ (Done(r) /\ req[r].op = "pin" /\ req[r].resp.status = 200) =>
                   \A d \in 1..nextDoc :
                       HasDescriptor(req[r].data, d)
                           <=> Shown(users[req[r].uid].documents, d))
    /\ [][\A u \in Users, d \in 1..nextDoc :
              (/\ HasDescriptor(users[u].documents, d)
               /\ Shown(users[u].documents, d) # Shown(users'[u].documents, d))
              => \E r \in Slots :
                     /\ req[r].uid = u
                     /\ WritesEntryOf(r, d, {"tog_update", "del_update"})]_vars

\* a PIN-gated read that returns the entry {docId 2, isDocShow true}, the form an
\* old-format entry takes when a toggle makes it visible
C15_Witness ==
    \E r \in Slots :
        /\ Done(r) /\ req[r].op = "pin" /\ req[r].resp.status = 200
        /\ \E i \in 1..Len(req[r].data) :
               req[r].data[i] = [shape |-> "current", docId |-> 2, isDocShow |-> TRUE]
        /\ ~HasDescriptor(req[r].data, 1)
        /\ HasDescriptor(users[req[r].uid].documents, 1)

----------------------------------------------------------------------------
(* C16: a PIN-gated read that answers 200 returns exactly the object entries
   of the user's array whose isDocShow is true, in the array's order; an
   old-format entry and an object whose isDocShow is false or missing is never
   returned. Checked under SpecList. *)
C16_PinReadReturnsShownObjects ==
    \A r \in Slots :
        (Done(r) /\ req[r].op = "pin" /\ req[r].resp.status = 200) =>
            LET list == req[r].pre.users[req[r].uid].documents
                shown(i) == /\ list[i].shape = "current"
                            /\ "isDocShow" \in DOMAIN list[i]
                            /\ list[i].isDocShow = TRUE
                kept(i) == Cardinality({k \in 1..i : shown(k)})
            IN  /\ Len(req[r].data) = kept(Len(list))
                /\ \A i \in 1..Len(list) : shown(i) => req[r].data[kept(i)] = list[i]
                /\ \A j \in 1..Len(req[r].data) :
                       /\ req[r].data[j].shape # "legacy"
                       /\ "isDocShow" \in DOMAIN req[r].data[j]
                       /\ req[r].data[j].isDocShow = TRUE

\* a read of an array holding an old-format entry, an object without isDocShow and
\* an uploaded descriptor: only the last is returned
C16_Witness ==
    \E r \in Slots :
        /\ Done(r) /\ req[r].op = "pin" /\ req[r].resp.status = 200
        /\ LET list == users[req[r].uid].documents
           IN  /\ Len(list) = 3
               /\ list[1].shape = "legacy"
               /\ list[2].shape = "current" /\ "isDocShow" \notin DOMAIN list[2]
               /\ list[3] = DocDetails(3, 9800000)
               /\ req[r].data = <<list[3]>>

----------------------------------------------------------------------------
(* C17: get-documents-by-pin answers 200, and holds document data, only when
   the user record has a non-empty masterPin equal to the supplied pin; a
   request that supplies a pin for a user whose masterPin is absent or empty,
   or a pin that differs from the stored one, is answered 401; no response
   other than 200 carries document data. Checked under SpecList. *)
C17_PinGate ==
    \A r \in Slots :
        req[r].op = "pin" =>
            LET u == req[r].uid
                matches == /\ u \in DOMAIN users
                           /\ "masterPin" \in DOMAIN users[u]
                           /\ users[u].masterPin # ""
                           /\ users[u].masterPin = req[r].pin
            IN  /\ req[r].data # <<>> => matches
                /\ Done(r) =>
                       /\ req[r].resp.status = 200 => matches
                       /\ req[r].resp.status # 200 => req[r].data = <<>>
                       /\ (u \in DOMAIN users /\ req[r].pin # "" /\ ~matches)
                              => req[r].resp.status = 401

\* a wrong pin for a user whose masterPin is set and who has shown documents
C17_Witness ==
    \E r \in Slots :
        /\ Done(r) /\ req[r].op = "pin" /\ req[r].resp.status = 401
        /\ req[r].uid = "u1"
        /\ VisibleDocuments(users["u1"].documents) # <<>>
        /\ req[r].data = <<>>
        /\ "masterPin" \in DOMAIN users["u1"]
        /\ users["u1"].masterPin = "1234"
        /\ req[r].pin = "9999"

----------------------------------------------------------------------------
(* C18: the handler behind authenticateToken runs only for a request whose
   Authorization header is a Bearer token of three dot-separated parts that
   the identity provider signed and verified and whose auth_time is not
   earlier than the tokensValidAfterTime of the token's user, and it runs as
   that user; a request that ends in the middleware is answered 401 and has
   left the user records as they were. Checked under SpecAuth. *)
C18_HandlerOnlyBehindValidToken ==
    \A r \in Slots :
        /\ req[r].op = "profile" =>
               LET header == req[r].authorization
               IN  /\ header.scheme \in {"Bearer", "bearer", "BEARER"}
                   /\ Len(header.token) = 3
                   /\ header.token[3] = "signed"
                   /\ req[r].uid = header.token[2].uid
                   /\ \/ authUsers[req[r].uid].tokensValidAfterTime = NoTime
                      \/ header.token[2].auth_time
                             >= authUsers[req[r].uid].tokensValidAfterTime
        /\ req[r].op = "auth" =>
               /\ users = req[r].pre.users
               /\ Done(r) => req[r].resp.status = 401

\* a well-formed, signed token issued at second 1 for a user whose tokens were
\* revoked at second 2: refused
C18_Witness ==
    \E r \in Slots :
        /\ Done(r) /\ req[r].op = "auth" /\ req[r].resp.status = 401
        /\ req[r].authorization = [scheme |-> "Bearer", token |-> IdToken("u1", 1, "signed")]
        /\ authUsers["u1"].tokensValidAfterTime = 2
        /\ req[r].pin = "1234"
        /\ users["u1"].masterPin = ""

----------------------------------------------------------------------------
(* C19: the read-modify-write of totalSize is not protected: whenever two
   concurrent uploads of one user have both read the same totalSize and both
   have answered 201, the stored totalSize is that value plus the size of one
   of the two files only, which is less than the sum of the sizes of the
   user's documents. Checked under SpecRace; the witness is the interleaving. *)
C19_LostUpdateOfTotalSize ==
    \A r1, r2 \in Slots :
        (/\ r1 # r2
         /\ Done(r1) /\ req[r1].op = "upload" /\ req[r1].resp.status = 201
         /\ Done(r2) /\ req[r2].op = "upload" /\ req[r2].resp.status = 201
         /\ req[r1].uid = req[r2].uid
         /\ req[r1].userData.totalSize = req[r2].userData.totalSize)
        => /\ users[req[r1].uid].totalSize
                  \in {req[r1].userData.totalSize + req[r1].size,
                       req[r2].userData.totalSize + req[r2].size}
           /\ users[req[r1].uid].totalSize
                  < SumFileSize(documents, DocsOf(req[r1].uid))

\* two uploads, of 4 MiB and of 9,800,000 bytes, both read totalSize 0; the 4 MiB
\* write comes last and the user stores 13,994,304 bytes under a total of 4 MiB
C19_Witness ==
    /\ \A r \in Slots : Done(r) /\ req[r].op = "upload" /\ req[r].resp.status = 201
    /\ req["r1"].userData.totalSize = 0 /\ req["r2"].userData.totalSize = 0
    /\ req["r1"].size = 4 * 1024 * 1024
    /\ req["r2"].size = 9800000
    /\ users["u1"].totalSize = 4 * 1024 * 1024
    /\ SumFileSize(documents, DocsOf("u1")) = 4 * 1024 * 1024 + 9800000

----------------------------------------------------------------------------
(* C20: under every interleaving of concurrent uploads of one user that answer
   201, and no other operation on that user, the user's documents array holds
   the descriptor of each upload exactly once after the upload's user-record
   write, so it holds both descriptors after both complete. Checked under
   SpecRace. *)
C20_BothDescriptorsListed ==
    \A r \in Slots :
        (/\ req[r].op = "upload"
         /\ \/ req[r].pc = "upl_touch"
            \/ (Done(r) /\ req[r].resp.status = 201))
        => Cardinality({i \in 1..Len(users[req[r].uid].documents) :
                           users[req[r].uid].documents[i]
                               = [shape |-> "current", docId |-> req[r].documentId,
                                  docSize |-> req[r].size, isDocShow |-> TRUE]}) = 1

\* both uploads read the empty array before either wrote, and both descriptors are
\* listed
C20_Witness ==
    /\ \A r \in Slots : Done(r) /\ req[r].op = "upload" /\ req[r].resp.status = 201
    /\ req["r1"].userData.documents = <<>>
    /\ req["r2"].userData.documents = <<>>
    /\ Len(users["u1"].documents) = 2
    /\ HasDescriptor(users["u1"].documents, req["r1"].documentId)
    /\ HasDescriptor(users["u1"].documents, req["r2"].documentId)
    /\ req["r1"].documentId # req["r2"].documentId

----------------------------------------------------------------------------
(* C21: every read that answers 200 (my-documents, get by id,
   get-documents-by-pin) returns, for each document that has a storagePath, a
   URL issued by the object store for that very request, never the downloadURL
   kept in the DocumentRecord since the upload. Checked under SpecRead, where
   getSignedUrl() may throw. *)
C21_ReadsReturnFreshUrls ==
    \A r \in Slots :
        (Done(r) /\ req[r].resp.status = 200
                 /\ req[r].op \in {"get", "my-documents", "pin"}) =>
            \A i \in 1..Len(req[r].urls) :
                LET path == IF req[r].op = "get" THEN req[r].docData.storagePath
                            ELSE IF req[r].op = "my-documents"
                                 THEN req[r].data[i].docData.storagePath
                            ELSE documents[req[r].data[i].docId].storagePath
                IN  path # NoPath => req[r].urls[i] = SignedUrl(path, req[r].op)

----------------------------------------------------------------------------
(* C22: the quota check is monotonic in the delta: at every total a user
   record reaches, if the check rejects a replacement whose delta (new size
   minus old size) is d, it rejects every replacement of a larger delta.
   Checked under SpecQuota. *)
C22_QuotaCheckMonotonic ==
    \A u \in Users :
        \A old1, new1, old2, new2 \in ProbeSizes :
            (/\ new1 - old1 < new2 - old2
             /\ QuotaExceeded(PicNewTotalSize(users[u].totalSize, old1, new1)))
            => QuotaExceeded(PicNewTotalSize(users[u].totalSize, old2, new2))

\* the handler has rejected a first picture of 1 MiB (delta 1 MiB) at a total at
\* which a delta of -5 MiB passes the check and a delta of 5 MiB does not
C22_Witness ==
    \E r \in Slots :
        /\ Done(r) /\ req[r].op = "picture" /\ req[r].resp.status = 413
        /\ req[r].size = 1024 * 1024
        /\ req[r].userData.profilePicturePath = NoPath
        /\ ~QuotaExceeded(PicNewTotalSize(users[req[r].uid].totalSize, 5 * 1024 * 1024, 0))
        /\ QuotaExceeded(PicNewTotalSize(users[req[r].uid].totalSize, 0, 5 * 1024 * 1024))

----------------------------------------------------------------------------
(* C23: a toggle-visibility request (with a boolean isDocShow) for a document
   id that matches no entry, old format or object, of the caller's documents
   array is answered 404, and no toggle request for such an id changes a user
   record. Checked under SpecList. *)
C23_ToggleOfUnlistedIsNotFound ==
    \A r \in Slots :
        (/\ Done(r)
         /\ req[r].op = "toggle"
         /\ ~HasDescriptor(req[r].pre.users[req[r].uid].documents, req[r].documentId))
        => /\ req[r].resp.status = IF req[r].bodyKind = "boolean" THEN 404 ELSE 400
           /\ users = req[r].pre.users

\* document 1 was deleted, document 2 is still listed in the old format, and a
\* toggle of document 1 is answered 404
C23_Witness ==
    \E r \in Slots :
        /\ Done(r) /\ req[r].op = "toggle" /\ req[r].resp.status = 404
        /\ req[r].documentId = 1
        /\ 1 \notin DOMAIN documents
        /\ users[req[r].uid].documents = <<[shape |-> "legacy", docId |-> 2]>>

----------------------------------------------------------------------------
(* C24: an upload that ends with an error response leaves the user record
   unchanged: whenever the upload handler answers a failure, whichever step
   threw, the user's totalSize and documents array are those of before the
   request. Checked under SpecFail. *)
C24_FailedUploadLeavesUserRecord ==
    \A r \in Slots :
        (Done(r) /\ req[r].op = "upload" /\ req[r].resp.status # 201) =>
            /\ users[req[r].uid].totalSize = req[r].pre.users[req[r].uid].totalSize
            /\ users[req[r].uid].documents = req[r].pre.users[req[r].uid].documents

----------------------------------------------------------------------------
(* C25: no dangling reference: in every reachable state, the states between
   the steps of a delete and after a delete that fails part-way included, each
   object descriptor in a user's documents array refers to a DocumentRecord
   that exists. Checked under SpecFail. *)
C25_NoDanglingDescriptor ==
    \A u \in Users :
        \A i \in 1..Len(users[u].documents) :
            users[u].documents[i].shape = "current"
                => users[u].documents[i].docId \in DOMAIN documents

----------------------------------------------------------------------------
(* C26: the descriptor of a successful upload is never lost to a concurrent
   write of the whole array: under every interleaving of an upload with a
   toggle-visibility or a delete of another document by the same user, the
   array holds the uploaded document's descriptor after both have completed,
   as long as the uploaded document itself has not been deleted. Checked under
   SpecMix. *)
C26_UploadSurvivesWholeListWrite ==
    (/\ Done("r1") /\ req["r1"].op = "upload" /\ req["r1"].resp.status = 201
     /\ Done("r2") /\ req["r2"].op \in {"toggle", "delete"}
     /\ req["r2"].uid = req["r1"].uid
     /\ req["r2"].documentId # req["r1"].documentId
     /\ req["r1"].documentId \in DOMAIN documents)
    => HasDescriptor(users[req["r1"].uid].documents, req["r1"].documentId)

----------------------------------------------------------------------------
(* C27: a document's size is subtracted from totalSize at most once: under
   every interleaving of two concurrent delete requests of the owner for the
   same document, both started while the document existed and both answered
   200, totalSize afterwards is the value before the two requests minus the
   document's recorded size, floored at zero. Checked under SpecTwice. *)
C27_DoubleDeleteSubtractsOnce ==
    (/\ Done("r1") /\ req["r1"].op = "delete" /\ req["r1"].resp.status = 200
     /\ Done("r2") /\ req["r2"].op = "delete" /\ req["r2"].resp.status = 200
     /\ req["r1"].uid = req["r2"].uid
     /\ req["r1"].documentId = req["r2"].documentId
     /\ req["r1"].pre.users = req["r2"].pre.users
     /\ req["r1"].documentId \in DOMAIN req["r1"].pre.documents
     /\ req["r2"].documentId \in DOMAIN req["r2"].pre.documents)
    => users[req["r1"].uid].totalSize
           = Max(0, req["r1"].pre.users[req["r1"].uid].totalSize
                       - req["r1"].pre.documents[req["r1"].documentId].fileSize)

----------------------------------------------------------------------------
(* C28: a user record's totalSize and documents array are written only by
   that user's own upload, delete, replace-profile-picture and
   toggle-visibility requests: a step that changes either of them for user u
   is a step of such a request of u; update-profile, logout and the
   /api/users routes leave them unchanged for every request body. Checked
   under SpecFrame. *)
C28_OnlyOwnMutationsWriteTotals ==
    [][\A u \in Users :
          (\/ users'[u].totalSize # users[u].totalSize
           \/ users'[u].documents # users[u].documents)
          => \E r \in Slots :
                 /\ req[r].uid = u
                 /\ req[r].op \in {"upload", "delete", "picture", "toggle"}
                 /\ req'[r].pc # req[r].pc]_vars

----------------------------------------------------------------------------
(* C29: once logout has revoked a user's sessions, a request to an endpoint
   that authenticates by ID token (a route behind authenticateToken,
   POST /auth/verify-token, GET /auth/me) that presented a token whose
   auth_time is earlier than the user's tokensValidAfterTime is answered 401
   and carries no user data. Checked under SpecSession, where requests are
   served one at a time, so the revocation precedes the whole request. *)
C29_RevokedTokenRefusedEverywhere ==
    \A r \in Slots :
        LET token == req[r].authorization.token
        IN  (/\ Done(r)
             /\ req[r].op \in {"auth", "profile", "me", "verify-token"}
             /\ Len(token) = 3
             /\ authUsers[token[2].uid].tokensValidAfterTime # NoTime
             /\ token[2].auth_time < authUsers[token[2].uid].tokensValidAfterTime)
            => (req[r].resp.status = 401 /\ req[r].data = <<>>)

====
